---------------------------- MODULE Spec2Model ----------------------------
(***************************************************************************)
(* Screenshot Rounder (src/screenshot_rounder.py).                         *)
(*                                                                         *)
(* Seven specifications:                                                   *)
(*   SpecPure  the pure functions of ImageProcessor: calculate_corner_     *)
(*             radius and get_output_path, applied to inputs drawn from    *)
(*             bounded sets.                                               *)
(*   Spec      the running program: the observer's on_created callbacks,   *)
(*             the clipboard polling thread, a manual --file run, and the  *)
(*             environment (files appearing and vanishing in the watched   *)
(*             folder, other applications writing the clipboard).          *)
(*   SpecLife  the life cycle: construction with validate_setup,           *)
(*             start_monitoring (also called a second time), Ctrl+C and    *)
(*             stop_monitoring, with the callbacks and the clipboard       *)
(*             thread running meanwhile, undecodable clipboard data, and   *)
(*             an unlink in the loop's cleanup that raises.                *)
(*   SpecMask  the pixels of apply_rounded_corners: the decoded image,     *)
(*             create_rounded_mask and putalpha, applied once and again.   *)
(*   SpecStopFair  the clipboard thread alone, started and stopped once,   *)
(*             with weak fairness of the thread's steps.                   *)
(*   SpecRestart  the clipboard thread alone, started, stopped, and        *)
(*             started again on the same ClipboardManager.                 *)
(*   SpecWatched  the filesystem trigger alone, for configurations whose   *)
(*             output folder may be the watched folder.                    *)
(*                                                                         *)
(* Percentages are exact rationals <<num, den>>; the code multiplies in    *)
(* IEEE doubles, whose rounding is outside this model.                     *)
(*                                                                         *)
(* What Spec takes from outside src/:                                      *)
(*  - ScreenshotHandler holds no lock, and process_screenshot guards       *)
(*    against a path "already being processed": up to NumHandlerThreads    *)
(*    on_created callbacks may be running at once. With one thread the     *)
(*    callbacks run strictly one after another.                            *)
(*  - main() runs process_single_file or start_monitoring, never both.     *)
(*  - Except in SpecWatched the output folder is not the watched folder    *)
(*    (as in the defaults), so only the save of a vanished original to     *)
(*    replace raises a creation event.                                     *)
(*  - Of the two unlink calls in the loop's cleanup only the second, on    *)
(*    the output path, is taken to raise; the staged file is the thread's  *)
(*    own file in the temporary directory. In Spec neither raises.         *)
(*  - join(timeout=1) gives up only while an iteration is under way: a     *)
(*    loop sleeping between polls wakes within half a second.              *)
(***************************************************************************)
EXTENDS Integers, Sequences, FiniteSets, TLC

VARIABLES
    config,                 \* ScreenshotRounderConfig.config plus CLIPBOARD_AVAILABLE
    kind,                   \* SpecPure: which pure function this behaviour applies
    image_size,             \* SpecPure: <<width, height>> given to calculate_corner_radius
    input_path,             \* SpecPure: the path given to get_output_path
    radius,                 \* SpecPure: result of calculate_corner_radius (0: not yet computed)
    output_path,            \* SpecPure: result of get_output_path
    pure_pc,                \* SpecPure: "input" before the call, "done" after it
    source,                 \* SpecMask: the decoded file: mode and alpha plane
    img,                    \* SpecMask: img of apply_rounded_corners, then the saved image
    mask,                   \* SpecMask: the result of create_rounded_mask
    first_alpha,            \* SpecMask history: the alpha plane saved by the first transform
    arc_rule,               \* SpecMask: how the rasteriser rounds an arc (0 or 1)
    files,                  \* the file system: existing path -> content
    clipboard,              \* NSPasteboard PNG slot: a content, or NoImage
    events,                 \* the observer's queue of creation events
    started,                \* start_monitoring has run
    processing_files,       \* ScreenshotHandler.processing_files
    handler,                \* per dispatching thread: position in on_created / process_screenshot
    last_clipboard_content, \* ClipboardManager.last_clipboard_content
    monitoring_clipboard,   \* ClipboardManager.monitoring_clipboard
    loop,                   \* the clipboard thread: position in _monitor_clipboard_loop
    manual,                 \* a --file run: position in process_single_file
    created,                \* number of creation events raised so far (bounded by MaxCreates)
    extWrites,              \* number of clipboard writes by other applications (bounded)
    transforms,             \* history: source path -> calls of apply_rounded_corners by the handler
    evCount,                \* history: path -> creation events raised for it
    overlap,                \* history: path -> an event was raised while an earlier one for it was unresolved
    cbWriter,               \* history: who wrote the clipboard's current content
    app,                    \* ScreenshotRounder(): "new" before __init__, then "ready" or "aborted"
    screenshot_folder,      \* the watched folder exists (validate_setup, line 536)
    stop_pc,                \* the caller's position in stop_monitoring ("no": not called)
    observers,              \* Observer threads started and not yet stopped
    pollers,                \* clipboard polling threads started and not yet returned
    unlinkFailures,         \* number of unlink calls that raised (bounded by MaxUnlinkFailures)
    loopDispatches          \* history: clipboard content -> times the handler's loop dispatched it

vars == <<config, kind, image_size, input_path, radius, output_path, pure_pc,
          source, img, mask, first_alpha, arc_rule,
          files, clipboard, events, started, processing_files, handler,
          last_clipboard_content, monitoring_clipboard, loop, manual,
          created, extWrites, transforms, evCount, overlap, cbWriter,
          app, screenshot_folder, stop_pc, observers, pollers,
          unlinkFailures, loopDispatches>>

pixVars == <<source, img, mask, first_alpha, arc_rule>>

pureVars == <<kind, image_size, input_path, radius, output_path, pure_pc, pixVars>>

progVars == <<files, clipboard, events, started, processing_files, handler,
              last_clipboard_content, monitoring_clipboard, loop, manual,
              created, extWrites, transforms, evCount, overlap, cbWriter>>

lifeVars == <<app, screenshot_folder, stop_pc, observers, pollers,
              unlinkFailures, loopDispatches>>

----------------------------------------------------------------------------
(* Bounds of the model *)

MaxMaskDim == 4             \* SpecMask: image sides 1..MaxMaskDim, every pixel modelled
MaxDim == 6                 \* image sides 1..MaxDim (plus the 1200x800 of the demo)
MaxPctNum == 3              \* percentage numerators -1..MaxPctNum
MaxFixed == 4               \* fixed radii -1..MaxFixed
NumScreenshots == 2         \* distinct screenshot files the environment can create
NumHandlerThreads == 2      \* on_created callbacks that can be running at once
MaxCreates == 2             \* creation events raised in one behaviour
MaxUnlinkFailures == 1      \* unlink calls of the clipboard loop that may raise
MaxObservers == 2           \* Observer threads that start_monitoring may have started
MaxExtWrites == 1           \* clipboard writes by other applications in one behaviour

----------------------------------------------------------------------------
(* Values *)

Min(a, b) == IF a <= b THEN a ELSE b
Max(a, b) == IF a >= b THEN a ELSE b

\* A path: directory, file name split as Path.stem / Path.suffix. The stem is
\* a base name followed by `rounded` copies of "_rounded".
MkPath(d, b, r, e) == [dir |-> d, base |-> b, rounded |-> r, ext |-> e]
NoPath == MkPath("none", <<"none", 0>>, 0, "")

\* PNG bytes: which picture, and whether its corners are rounded. Corrupt
\* stands for bytes PIL cannot decode.
Image(i, r) == [img |-> i, rounded |-> r]
NoImage == Image(0, FALSE)
Corrupt == Image(-1, FALSE)


\* Directories: the watched screenshot folder, the output folder, the system
\* temporary directory, and some other folder (a manual run's file).
WatchDir == "watch"
OutDir == "out"
TmpDir == "tmp"

Percentages == {<<n, d>> : n \in -1..MaxPctNum, d \in {2, 3, 20}}
FixedRadii == -1..MaxFixed
Dims == (1..MaxDim) \cup {800, 1200}

\* get_default_config, with CLIPBOARD_AVAILABLE and the save_to_desktop and
\* monitor_clipboard keys the code reads with .get(key, True).
DefaultConfig ==
    [use_percentage |-> TRUE, corner_radius_percentage |-> <<1, 20>>,
     corner_radius |-> 20, save_to_desktop |-> TRUE, replace_original |-> FALSE,
     output_folder |-> OutDir, auto_copy_to_clipboard |-> TRUE,
     monitor_enabled |-> TRUE, monitor_clipboard |-> TRUE,
     clipboard_available |-> TRUE, file_patterns |-> {<<"Screenshot", ".png">>}]

----------------------------------------------------------------------------
(* ImageProcessor: the pure functions *)

\* Python's int() of the quotient n/d, d > 0: truncation toward zero.
IntOf(n, d) == IF n >= 0 THEN n \div d ELSE -((-n) \div d)

\* The mutants of calculate_corner_radius: without the final clamp; taking
\* the larger side; rounding the product up.
calculate_corner_radius_noclamp(size, cfg) ==
    IF cfg.use_percentage
    THEN IntOf(Min(size[1], size[2]) * cfg.corner_radius_percentage[1],
               cfg.corner_radius_percentage[2])
    ELSE cfg.corner_radius

calculate_corner_radius_maxdim(size, cfg) ==
    LET r == IF cfg.use_percentage
             THEN IntOf(Max(size[1], size[2]) * cfg.corner_radius_percentage[1],
                        cfg.corner_radius_percentage[2])
             ELSE cfg.corner_radius
    IN  Max(1, r)

calculate_corner_radius_roundup(size, cfg) ==
    LET r == IF cfg.use_percentage
             THEN IntOf(Min(size[1], size[2]) * cfg.corner_radius_percentage[1]
                          + cfg.corner_radius_percentage[2] - 1,
                        cfg.corner_radius_percentage[2])
             ELSE cfg.corner_radius
    IN  Max(1, r)

calculate_corner_radius(size, cfg) ==
    LET width == size[1]
        height == size[2]
        min_dimension == Min(width, height)
        r == IF cfg.use_percentage
             THEN IntOf(min_dimension * cfg.corner_radius_percentage[1],
                        cfg.corner_radius_percentage[2])
             ELSE cfg.corner_radius
    IN  Max(1, r)

get_output_path(path, cfg) ==
    IF ~cfg.save_to_desktop THEN NoPath
    ELSE IF cfg.replace_original THEN path
    ELSE MkPath(cfg.output_folder, path.base, path.rounded + 1, path.ext)

\* tempfile.NamedTemporaryFile(prefix=..., suffix='.png', delete=False): a
\* name of the temporary directory that no existing file has.
\* (Every run of the model leaves fewer than MaxCreates + 3 of them behind.)
TempNames(prefix) ==
    {MkPath(TmpDir, <<prefix, k>>, 0, ".png") : k \in 1..(MaxCreates + 3)}
FreeTemps(prefix, fs) == {p \in TempNames(prefix) : p \notin DOMAIN fs}
NewTemp(prefix, fs) ==
    CHOOSE p \in FreeTemps(prefix, fs) :
        \A q \in FreeTemps(prefix, fs) : p.base[2] <= q.base[2]

\* Where apply_rounded_corners saves: get_output_path's answer, or a new
\* temporary file when that is None.
Destination(path, cfg, fs) ==
    IF get_output_path(path, cfg) /= NoPath
    THEN get_output_path(path, cfg)
    ELSE NewTemp("tmp", fs)

----------------------------------------------------------------------------
(* SpecPure: inputs drawn from bounded sets, one application *)

Screenshot(i) == MkPath(WatchDir, <<"Screenshot", i>>, 0, ".png")
Screenshots == {Screenshot(i) : i \in 1..NumScreenshots}

PureInputPaths ==
    {MkPath(d, b, r, e) : d \in {WatchDir, "elsewhere", TmpDir},
                          b \in {<<"Screenshot", 1>>, <<"clipboard", 1>>},
                          r \in 0..1, e \in {".png", ".jpg"}}

RadiusConfigs ==
    {[DefaultConfig EXCEPT !.use_percentage = u, !.corner_radius_percentage = p,
                           !.corner_radius = f] :
        u \in BOOLEAN, p \in Percentages, f \in FixedRadii}

PathConfigs ==
    {[DefaultConfig EXCEPT !.save_to_desktop = s, !.replace_original = r,
                           !.output_folder = o] :
        s \in BOOLEAN, r \in BOOLEAN, o \in {OutDir, WatchDir}}

\* No image decoded.
PixIdle ==
    /\ source = [mode |-> "none", alpha |-> << >>]
    /\ img = [mode |-> "none", alpha |-> << >>]
    /\ mask = << >>
    /\ first_alpha = << >>
    /\ arc_rule = 0

\* Nothing started, nothing stopped, no history.
LifeIdle ==
    /\ stop_pc = "no"
    /\ observers = 0
    /\ pollers = 0
    /\ unlinkFailures = 0
    /\ loopDispatches = << >>

ProgIdle ==
    /\ files = << >>
    /\ clipboard = NoImage
    /\ events = << >>
    /\ started = FALSE
    /\ processing_files = {}
    /\ handler = [t \in 1..NumHandlerThreads |->
                    [pc |-> "idle", path |-> NoPath, img |-> NoImage, out |-> NoPath]]
    /\ last_clipboard_content = NoImage
    /\ monitoring_clipboard = FALSE
    /\ loop = [pc |-> "off", current |-> NoImage, temp |-> NoPath,
               img |-> NoImage, out |-> NoPath, origin |-> "none"]
    /\ manual = [pc |-> "ready", path |-> NoPath, img |-> NoImage, out |-> NoPath,
                 result |-> FALSE]
    /\ created = 0
    /\ extWrites = 0
    /\ transforms = [p \in Screenshots |-> 0]
    /\ evCount = [p \in Screenshots |-> 0]
    /\ overlap = [p \in Screenshots |-> FALSE]
    /\ cbWriter = "none"

InitPure ==
    /\ kind \in {"radius", "path"}
    /\ pure_pc = "input"
    /\ radius = 0
    /\ output_path = NoPath
    /\ IF kind = "radius"
       THEN /\ config \in RadiusConfigs
            /\ image_size \in Dims \X Dims
            /\ input_path = NoPath
       ELSE /\ config \in PathConfigs
            /\ image_size = <<1, 1>>
            /\ input_path \in PureInputPaths
    /\ ProgIdle
    /\ LifeIdle
    /\ PixIdle
    /\ app = "ready"
    /\ screenshot_folder = TRUE

CalcRadius ==
    /\ kind = "radius" /\ pure_pc = "input"
    /\ radius' = calculate_corner_radius(image_size, config)
    /\ pure_pc' = "done"
    /\ UNCHANGED <<config, kind, image_size, input_path, output_path, pixVars, progVars, lifeVars>>

ResolvePath ==
    /\ kind = "path" /\ pure_pc = "input"
    /\ output_path' = Destination(input_path, config, files)
    /\ pure_pc' = "done"
    /\ UNCHANGED <<config, kind, image_size, input_path, radius, pixVars, progVars, lifeVars>>

NextPure == CalcRadius \/ ResolvePath

SpecPure == InitPure /\ [][NextPure]_vars

----------------------------------------------------------------------------
(* SpecMask: the pixels of apply_rounded_corners, lines 171-194 *)

\* Pixel coordinates of an image of the given size, <<0, 0>> top left.
Pixels(size) == (0..(size[1] - 1)) \X (0..(size[2] - 1))

Uniform(size, v) == [p \in Pixels(size) |-> v]
Checker(size) == [p \in Pixels(size) |-> IF (p[1] + p[2]) % 2 = 0 THEN 255 ELSE 0]

\* What Image.open can give: an image without alpha, or an RGBA image whose
\* alpha plane is opaque, half transparent, transparent or mixed.
SourceImages(size) ==
    {[mode |-> "RGB", alpha |-> Uniform(size, 255)]} \cup
    {[mode |-> "RGBA", alpha |-> a] :
        a \in {Uniform(size, 255), Uniform(size, 100), Uniform(size, 0), Checker(size)}}

\* Lines 173-174: img.convert('RGBA') unless the mode is RGBA already; an
\* image without alpha becomes fully opaque.
convert(image) ==
    IF image.mode /= "RGBA"
    THEN [mode |-> "RGBA", alpha |-> [p \in DOMAIN image.alpha |-> 255]]
    ELSE image

\* ImageDraw.rounded_rectangle([(0, 0), (w-1, h-1)], radius, fill=255) on a
\* mask of zeros (lines 148-155). The corner boxes are 2*radius wide, clamped
\* to the box, so that a large radius gives the inscribed ellipse; a pixel
\* outside the corner boxes is filled; inside a corner box it is filled when
\* it lies within the corner's ellipse. The rasteriser is Pillow's: whether it
\* takes the ellipse through the outer pixels' centres (rule 0) or through
\* their outer edges (rule 1) is left open.
create_rounded_mask(size, r, rule) ==
    LET x1 == size[1] - 1
        y1 == size[2] - 1
        dx == Min(2 * r, x1)
        dy == Min(2 * r, y1)
        a  == dx + rule
        b  == dy + rule
    IN [p \in Pixels(size) |->
          LET xd == Min(p[1], x1 - p[1])
              yd == Min(p[2], y1 - p[2])
              u  == dx - 2 * xd
              v  == dy - 2 * yd
          IN IF u > 0 /\ v > 0 /\ u * u * b * b + v * v * a * a > a * a * b * b
             THEN 0 ELSE 255]

\* The mutant of putalpha: the mask is multiplied into the existing alpha
\* (the smaller of two values that are 0 or 255 on the mask's side).
putalpha_multiply(image, m) ==
    [image EXCEPT !.alpha = [p \in DOMAIN m |-> Min(image.alpha[p], m[p])]]

\* Line 190: img.putalpha(mask) replaces the alpha band by the mask.
putalpha(image, m) == [image EXCEPT !.alpha = m]

MaskConfigs ==
    {[DefaultConfig EXCEPT !.use_percentage = TRUE, !.corner_radius_percentage = pc] :
        pc \in {<<1, 20>>, <<1, 2>>}} \cup
    {[DefaultConfig EXCEPT !.use_percentage = FALSE, !.corner_radius = f] :
        f \in FixedRadii}

InitMask ==
    /\ kind = "mask"
    /\ pure_pc = "input"
    /\ config \in MaskConfigs
    /\ image_size \in (1..MaxMaskDim) \X (1..MaxMaskDim)
    /\ source \in SourceImages(image_size)
    /\ arc_rule \in {0, 1}
    /\ img = [mode |-> "none", alpha |-> << >>]
    /\ mask = << >>
    /\ first_alpha = << >>
    /\ radius = 0
    /\ input_path = NoPath
    /\ output_path = NoPath
    /\ ProgIdle
    /\ LifeIdle
    /\ app = "ready"
    /\ screenshot_folder = TRUE

\* Lines 171-194 on the image opened from the file.
Transform ==
    /\ kind = "mask" /\ pure_pc = "input"
    /\ LET r == calculate_corner_radius(image_size, config)
           m == create_rounded_mask(image_size, r, arc_rule)
       IN /\ radius' = r
          /\ mask' = m
          /\ img' = putalpha(convert(source), m)
          /\ first_alpha' = putalpha(convert(source), m).alpha
    /\ pure_pc' = "once"
    /\ UNCHANGED <<config, kind, image_size, input_path, output_path, source,
                   arc_rule, progVars, lifeVars>>

\* Lines 171-194 again, on the image the first transform saved (same size,
\* same configuration).
TransformAgain ==
    /\ kind = "mask" /\ pure_pc = "once"
    /\ LET r == calculate_corner_radius(image_size, config)
           m == create_rounded_mask(image_size, r, arc_rule)
       IN /\ radius' = r
          /\ mask' = m
          /\ img' = putalpha(convert(img), m)
    /\ pure_pc' = "twice"
    /\ UNCHANGED <<config, kind, image_size, input_path, output_path, source,
                   first_alpha, arc_rule, progVars, lifeVars>>

NextMask == Transform \/ TransformAgain

SpecMask == InitMask /\ [][NextMask]_vars

\* The corner pixels and the centre pixel of the image.
Corners == {<<x, y>> \in Pixels(image_size) :
               /\ x \in {0, image_size[1] - 1}
               /\ y \in {0, image_size[2] - 1}}
Centre == <<image_size[1] \div 2, image_size[2] \div 2>>

\* C22: after a transform every pixel's alpha is the mask's value, whatever
\* the alpha of the source was; and a second transform of the saved image
\* leaves the alpha plane as the first one made it.
C22_AlphaReplaced ==
    (kind = "mask" /\ pure_pc /= "input") =>
        /\ mask = create_rounded_mask(image_size, radius, arc_rule)
        /\ \A p \in Pixels(image_size) : img.alpha[p] = mask[p]
        /\ pure_pc = "twice" => img.alpha = first_alpha

\* Transformed twice; the source was transparent at a pixel the mask fills,
\* and the mask cuts at least one pixel.
C22_Witness ==
    /\ kind = "mask" /\ pure_pc = "twice"
    /\ \E p \in Pixels(image_size) : source.alpha[p] = 0 /\ img.alpha[p] = 255
    /\ \E p \in Pixels(image_size) : source.alpha[p] = 255 /\ img.alpha[p] = 0

----------------------------------------------------------------------------
(* Claims about the pure functions (SpecPure) *)

RadiusDone == kind = "radius" /\ pure_pc = "done"
MinSide == Min(image_size[1], image_size[2])
Pct == config.corner_radius_percentage
\* the percentage is in (0, 0.5]
PctInRange == Pct[1] > 0 /\ 2 * Pct[1] <= Pct[2]

\* C7 as stated: in percentage mode with p in (0, 0.5], 1 <= r <= min(w,h)/2
\* for all positive sizes.
C7_Original ==
    (RadiusDone /\ config.use_percentage /\ PctInRange)
        => (1 <= radius /\ 2 * radius <= MinSide)

\* C7 amended: in percentage mode with p in (0, 0.5] and a shorter side of at
\* least 2 pixels, 1 <= r <= min(w,h)/2. (With a side of 1 pixel the clamp
\* gives r = 1 > 1/2.)
C7_RadiusInRange ==
    (RadiusDone /\ config.use_percentage /\ PctInRange /\ MinSide >= 2)
        => (1 <= radius /\ 2 * radius <= MinSide)

C7_Witness ==
    /\ RadiusDone /\ config.use_percentage /\ PctInRange
    /\ image_size = <<1200, 800>> /\ Pct = <<1, 20>> /\ radius = 40

\* C8 as stated: for every configuration and all positive sizes,
\* 1 <= r <= min(w,h)/2.
C8_Original ==
    RadiusDone => (1 <= radius /\ 2 * radius <= MinSide)

\* C8 amended: for every configuration and all positive sizes r >= 1; and
\* r <= min(w,h)/2 whenever the shorter side is at least 2 pixels and the
\* configured value is itself in range: percentage in (0, 0.5] in percentage
\* mode, fixed radius <= min(w,h)/2 in fixed-pixel mode.
C8_RadiusBounds ==
    RadiusDone =>
        /\ radius >= 1
        /\ (MinSide >= 2 /\ (IF config.use_percentage THEN PctInRange
                             ELSE 2 * config.corner_radius <= MinSide))
              => 2 * radius <= MinSide

C8_Witness ==
    /\ RadiusDone /\ ~config.use_percentage
    /\ config.corner_radius = 2 /\ image_size = <<4, 6>> /\ radius = 2

\* The reference of C9: max(1, floor(min(w,h) * p)), or max(1, fixed).
\* \div is the floor of the quotient.
RefRadius(size, cfg) ==
    IF cfg.use_percentage
    THEN Max(1, (Min(size[1], size[2]) * cfg.corner_radius_percentage[1])
                    \div cfg.corner_radius_percentage[2])
    ELSE Max(1, cfg.corner_radius)

\* C9: calculate_corner_radius equals the reference for all positive sizes and
\* all configured values, percentage <= 0 and fixed radius <= 0 included, and
\* 1200x800 at 5% gives 40.
C9_MatchesReference ==
    RadiusDone =>
        /\ radius = RefRadius(image_size, config)
        /\ (config.use_percentage /\ Pct = <<1, 20>> /\ image_size = <<1200, 800>>)
              => radius = 40

C9_Witness ==
    /\ RadiusDone /\ config.use_percentage /\ Pct[1] < 0
    /\ (MinSide * Pct[1]) % Pct[2] /= 0
    /\ radius = 1

PathDone == kind = "path" /\ pure_pc = "done"

\* C10 as stated: whenever replace_original is configured the destination is
\* the source path, for every combination of the other flags.
C10_ReplaceOriginalWins ==
    (PathDone /\ config.replace_original) => output_path = input_path


----------------------------------------------------------------------------
(* Spec: the running program *)

\* The picture an application other than this program puts on the clipboard.
ExternalImage == Image(NumScreenshots + 1, FALSE)

\* A file of the watched folder that matches no pattern, and a sub-folder.
Notes == MkPath(WatchDir, <<"notes", 1>>, 0, ".png")
Folder == MkPath(WatchDir, <<"folder", 1>>, 0, "")

\* putalpha(mask) with the rounded mask, saved as PNG: the same picture with
\* rounded corners; the same bytes when the corners already were rounded.
Rounded(c) == [c EXCEPT !.rounded = TRUE]

WriteFile(fs, p, c) == [q \in DOMAIN fs \cup {p} |-> IF q = p THEN c ELSE fs[q]]
Unlink(fs, ps) == [q \in DOMAIN fs \ ps |-> fs[q]]

\* fnmatch.fnmatch(filename, "<prefix>*<ext>")
fnmatch(path, pattern) == path.base[1] = pattern[1] /\ path.ext = pattern[2]

is_screenshot_file(path) == \E pattern \in config.file_patterns : fnmatch(path, pattern)

\* observer.start() has run and observer.stop() has not: creation events of
\* the watched folder are queued and dispatched.
Observing ==
    /\ started /\ config.monitor_enabled
    /\ stop_pc \notin {"join_observer", "stopped"}

\* An event for p is unresolved: queued, or its callback has not returned.
Unresolved(p) ==
    \/ \E i \in 1..Len(events) : events[i].src_path = p /\ ~events[i].is_directory
    \/ \E t \in 1..NumHandlerThreads : handler[t].pc /= "idle" /\ handler[t].path = p

ProgConfigs ==
    {[DefaultConfig EXCEPT !.save_to_desktop = s, !.replace_original = r,
                           !.auto_copy_to_clipboard = a, !.clipboard_available = c,
                           !.monitor_enabled = m, !.monitor_clipboard = k] :
        s \in BOOLEAN, r \in BOOLEAN, a \in BOOLEAN, c \in BOOLEAN,
        m \in BOOLEAN, k \in BOOLEAN}

Init ==
    /\ config \in ProgConfigs
    /\ kind = "program"
    /\ image_size = <<1, 1>>
    /\ input_path = NoPath
    /\ radius = 0
    /\ output_path = NoPath
    /\ pure_pc = "input"
    /\ ProgIdle
    /\ LifeIdle
    /\ PixIdle
    /\ app = "ready"
    /\ screenshot_folder = TRUE

IdleHandler == [pc |-> "idle", path |-> NoPath, img |-> NoImage, out |-> NoPath]
IdleLoop == [pc |-> "loop", current |-> NoImage, temp |-> NoPath,
             img |-> NoImage, out |-> NoPath, origin |-> "none"]

(* ---- the environment ---- *)

\* A file appears in the watched folder (a screenshot, possibly still being
\* written and undecodable, or some other file); the observer queues on_created.
FsCreate(p, c) ==
    /\ created < MaxCreates
    /\ created' = created + 1
    /\ files' = WriteFile(files, p, c)
    /\ IF Observing
       THEN /\ events' = Append(events, [src_path |-> p, is_directory |-> FALSE])
            /\ IF p \in Screenshots
               THEN /\ evCount' = [evCount EXCEPT ![p] = @ + 1]
                    /\ overlap' = [overlap EXCEPT ![p] = @ \/ Unresolved(p)]
               ELSE UNCHANGED <<evCount, overlap>>
       ELSE UNCHANGED <<events, evCount, overlap>>
    /\ UNCHANGED <<config, pureVars, lifeVars, clipboard, started, processing_files, handler,
                   last_clipboard_content, monitoring_clipboard, loop, manual,
                   extWrites, transforms, cbWriter>>

FsCreateDir ==
    /\ created < MaxCreates
    /\ Observing
    /\ created' = created + 1
    /\ events' = Append(events, [src_path |-> Folder, is_directory |-> TRUE])
    /\ UNCHANGED <<config, pureVars, lifeVars, files, clipboard, started, processing_files,
                   handler, last_clipboard_content, monitoring_clipboard, loop,
                   manual, extWrites, transforms, evCount, overlap, cbWriter>>

\* The user removes a file from the watched folder.
FsDelete(p) ==
    /\ p \in DOMAIN files /\ p.dir = WatchDir
    /\ files' = Unlink(files, {p})
    /\ UNCHANGED <<config, pureVars, lifeVars, clipboard, events, started, processing_files,
                   handler, last_clipboard_content, monitoring_clipboard, loop,
                   manual, created, extWrites, transforms, evCount, overlap, cbWriter>>

\* Another application puts a picture on the clipboard (Cmd+Shift+4).
ExternalCopy ==
    /\ extWrites < MaxExtWrites
    /\ extWrites' = extWrites + 1
    /\ clipboard' = ExternalImage
    /\ cbWriter' = "external"
    /\ UNCHANGED <<config, pureVars, lifeVars, files, events, started, processing_files,
                   handler, last_clipboard_content, monitoring_clipboard, loop,
                   manual, created, transforms, evCount, overlap>>


(* ---- ScreenshotRounder.start_monitoring ---- *)

\* ClipboardManager.start_clipboard_monitoring, lines 322-339: nothing without
\* the clipboard capability, nothing when the flag is already set; else the
\* flag is set and a polling thread started.
start_clipboard_monitoring ==
    IF config.clipboard_available /\ ~monitoring_clipboard
    THEN /\ monitoring_clipboard' = TRUE
         /\ loop' = IdleLoop
         /\ pollers' = pollers + 1
    ELSE UNCHANGED <<monitoring_clipboard, loop, pollers>>

\* The first call, made by main() on a constructed application. Returns at
\* once when monitor_enabled is off. Otherwise creates the handler and starts
\* the observer, then start_clipboard_monitoring when monitor_clipboard is set.
StartMonitoring ==
    /\ app = "ready" /\ stop_pc = "no"
    /\ ~started
    /\ manual.pc = "ready"
    /\ started' = TRUE
    /\ IF config.monitor_enabled
       THEN /\ observers' = observers + 1
            /\ IF config.monitor_clipboard
               THEN start_clipboard_monitoring
               ELSE UNCHANGED <<monitoring_clipboard, loop, pollers>>
       ELSE UNCHANGED <<observers, monitoring_clipboard, loop, pollers>>
    /\ UNCHANGED <<config, pureVars, files, clipboard, events, processing_files,
                   handler, last_clipboard_content, manual, created, extWrites,
                   transforms, evCount, overlap, cbWriter, app, screenshot_folder,
                   stop_pc, unlinkFailures, loopDispatches>>

(* ---- ClipboardManager.copy_image_to_clipboard / get_clipboard_image ---- *)

\* The mutant of copy_image_to_clipboard: the capability is not tested.
copy_image_to_clipboard_nocheck(image_path, who, ok) ==
    IF image_path \in DOMAIN files
    THEN /\ clipboard' = IF ok THEN files[image_path] ELSE NoImage
         /\ cbWriter' = IF ok THEN who ELSE "none"
    ELSE UNCHANGED <<clipboard, cbWriter>>

\* False without the capability, and when the file cannot be read (before the
\* pasteboard is touched). Otherwise clearContents, then setData_forType_,
\* which succeeds (ok) or leaves the pasteboard cleared.
copy_image_to_clipboard(image_path, who, ok) ==
    IF config.clipboard_available /\ image_path \in DOMAIN files
    THEN /\ clipboard' = IF ok THEN files[image_path] ELSE NoImage
         /\ cbWriter' = IF ok THEN who ELSE "none"
    ELSE UNCHANGED <<clipboard, cbWriter>>

get_clipboard_image == IF config.clipboard_available THEN clipboard ELSE NoImage

(* ---- ScreenshotHandler.on_created / process_screenshot ---- *)

\* The mutant of on_created: every event is dispatched, directories and
\* names matching no pattern included.
on_created_nofilter(t) ==
    /\ Observing
    /\ handler[t].pc = "idle"
    /\ events /= << >>
    /\ events' = Tail(events)
    /\ LET event == Head(events) IN
       handler' = [handler EXCEPT ![t] = [IdleHandler EXCEPT !.pc = "delay",
                                                               !.path = event.src_path]]
    /\ UNCHANGED <<config, pureVars, lifeVars, files, clipboard, started, processing_files,
                   last_clipboard_content, monitoring_clipboard, loop, manual,
                   created, extWrites, transforms, evCount, overlap, cbWriter>>

\* The observer hands the next queued event to a callback: a directory or a
\* name matching no pattern returns at once; a match sleeps processing_delay.
on_created(t) ==
    /\ Observing
    /\ handler[t].pc = "idle"
    /\ events /= << >>
    /\ events' = Tail(events)
    /\ LET event == Head(events) IN
       IF ~event.is_directory /\ is_screenshot_file(event.src_path)
       THEN handler' = [handler EXCEPT ![t] = [IdleHandler EXCEPT !.pc = "delay",
                                                               !.path = event.src_path]]
       ELSE UNCHANGED handler
    /\ UNCHANGED <<config, pureVars, lifeVars, files, clipboard, started, processing_files,
                   last_clipboard_content, monitoring_clipboard, loop, manual,
                   created, extWrites, transforms, evCount, overlap, cbWriter>>

\* The mutant of PS_Check: the rejected call leaves through the finally block
\* and discards the path.
PS_Check_discard(t) ==
    /\ handler[t].pc = "delay"
    /\ IF handler[t].path \in processing_files
       THEN /\ handler' = [handler EXCEPT ![t] = IdleHandler]
            /\ processing_files' = processing_files \ {handler[t].path}
       ELSE /\ handler' = [handler EXCEPT ![t].pc = "add"]
            /\ UNCHANGED processing_files
    /\ UNCHANGED <<config, pureVars, lifeVars, files, clipboard, events, started,
                   last_clipboard_content, monitoring_clipboard,
                   loop, manual, created, extWrites, transforms, evCount, overlap,
                   cbWriter>>

\* The sleep is over; process_screenshot, lines 467-469: return if the path is
\* in processing_files.
PS_Check(t) ==
    /\ handler[t].pc = "delay"
    /\ IF handler[t].path \in processing_files
       THEN handler' = [handler EXCEPT ![t] = IdleHandler]
       ELSE handler' = [handler EXCEPT ![t].pc = "add"]
    /\ UNCHANGED <<config, pureVars, lifeVars, files, clipboard, events, started,
                   processing_files, last_clipboard_content, monitoring_clipboard,
                   loop, manual, created, extWrites, transforms, evCount, overlap,
                   cbWriter>>

\* line 472
PS_Add(t) ==
    /\ handler[t].pc = "add"
    /\ processing_files' = processing_files \cup {handler[t].path}
    /\ handler' = [handler EXCEPT ![t].pc = "exists"]
    /\ UNCHANGED <<config, pureVars, lifeVars, files, clipboard, events, started,
                   last_clipboard_content, monitoring_clipboard, loop, manual,
                   created, extWrites, transforms, evCount, overlap, cbWriter>>

\* The mutant of PS_Apply: the vanished-file return leaves without the finally
\* block.
PS_Apply_earlyreturn(t) ==
    /\ handler[t].pc = "exists"
    /\ LET path == handler[t].path IN
       IF path \notin DOMAIN files
       THEN /\ handler' = [handler EXCEPT ![t] = IdleHandler]
            /\ UNCHANGED transforms
       ELSE /\ transforms' = [transforms EXCEPT ![path] = @ + 1]
            /\ IF files[path] = Corrupt
               THEN handler' = [handler EXCEPT ![t].pc = "finally"]
               ELSE handler' = [handler EXCEPT ![t].pc = "transforming",
                                               ![t].img = files[path]]
    /\ UNCHANGED <<config, pureVars, lifeVars, files, clipboard, events, started,
                   processing_files, last_clipboard_content, monitoring_clipboard,
                   loop, manual, created, extWrites, evCount, overlap, cbWriter>>

\* Lines 479-487 and 170-173: return (through finally) if the file no longer
\* exists; else apply_rounded_corners is called and opens the image, which
\* fails (returns None) on bytes it cannot decode.
PS_Apply(t) ==
    /\ handler[t].pc = "exists"
    /\ LET path == handler[t].path IN
       IF path \notin DOMAIN files
       THEN /\ handler' = [handler EXCEPT ![t].pc = "finally"]
            /\ UNCHANGED transforms
       ELSE /\ transforms' = [transforms EXCEPT ![path] = @ + 1]
            /\ IF files[path] = Corrupt
               THEN handler' = [handler EXCEPT ![t].pc = "finally"]
               ELSE handler' = [handler EXCEPT ![t].pc = "transforming",
                                               ![t].img = files[path]]
    /\ UNCHANGED <<config, pureVars, lifeVars, files, clipboard, events, started,
                   processing_files, last_clipboard_content, monitoring_clipboard,
                   loop, manual, created, extWrites, evCount, overlap, cbWriter>>

\* Lines 176-222 and 489-499: mask, resolve the destination, save. A failed
\* save returns None. On success the copy to the clipboard follows when
\* auto_copy_to_clipboard is set. A save that creates a file in the watched
\* folder (the output folder is the watched folder, or the original to
\* replace has vanished) is one more creation there, and the observer queues
\* on_created for it.
PS_Save(t) ==
    /\ handler[t].pc = "transforming"
    /\ \E ok \in BOOLEAN :
         IF ok
         THEN LET dest == Destination(handler[t].path, config, files) IN
              /\ files' = WriteFile(files, dest, Rounded(handler[t].img))
              /\ handler' = [handler EXCEPT
                               ![t].out = dest,
                               ![t].pc = IF config.auto_copy_to_clipboard
                                         THEN "copy" ELSE "finally"]
              /\ IF Observing /\ dest.dir = WatchDir /\ dest \notin DOMAIN files
                 THEN /\ created < MaxCreates
                      /\ created' = created + 1
                      /\ events' = Append(events, [src_path |-> dest,
                                                   is_directory |-> FALSE])
                      /\ IF dest \in Screenshots
                         THEN /\ evCount' = [evCount EXCEPT ![dest] = @ + 1]
                              /\ overlap' = [overlap EXCEPT ![dest] = @ \/ Unresolved(dest)]
                         ELSE UNCHANGED <<evCount, overlap>>
                 ELSE UNCHANGED <<created, events, evCount, overlap>>
         ELSE /\ handler' = [handler EXCEPT ![t].pc = "finally"]
              /\ UNCHANGED <<files, created, events, evCount, overlap>>
    /\ UNCHANGED <<config, pureVars, lifeVars, clipboard, started, processing_files,
                   last_clipboard_content, monitoring_clipboard, loop, manual,
                   extWrites, transforms, cbWriter>>

\* line 495
PS_Copy(t) ==
    /\ handler[t].pc = "copy"
    /\ \E ok \in BOOLEAN : copy_image_to_clipboard(handler[t].out, "handler", ok)
    /\ handler' = [handler EXCEPT ![t].pc = "finally"]
    /\ UNCHANGED <<config, pureVars, lifeVars, files, events, started, processing_files,
                   last_clipboard_content, monitoring_clipboard, loop, manual,
                   created, extWrites, transforms, evCount, overlap>>

\* lines 503-504
PS_Finally(t) ==
    /\ handler[t].pc = "finally"
    /\ processing_files' = processing_files \ {handler[t].path}
    /\ handler' = [handler EXCEPT ![t] = IdleHandler]
    /\ UNCHANGED <<config, pureVars, lifeVars, files, clipboard, events, started,
                   last_clipboard_content, monitoring_clipboard, loop, manual,
                   created, extWrites, transforms, evCount, overlap, cbWriter>>


(* ---- ClipboardManager._monitor_clipboard_loop ---- *)

\* history: one more dispatch of content c by the loop
Count(d, c) == IF c \in DOMAIN d THEN d[c] ELSE 0
Dispatched(d, c) == [x \in DOMAIN d \cup {c} |-> IF x = c THEN Count(d, c) + 1 ELSE d[x]]

\* line 377
CL_Record(new_last) == last_clipboard_content' = new_last

\* The mutant of CL_Poll: the loop test ignores the flag.
CL_Poll_nostop ==
    /\ loop.pc = "loop"
    /\ LET current_content == get_clipboard_image IN
       IF current_content /= NoImage /\ current_content /= last_clipboard_content
       THEN /\ loop' = [loop EXCEPT !.pc = "stage", !.current = current_content,
                                    !.origin = cbWriter]
            /\ loopDispatches' = Dispatched(loopDispatches, current_content)
            /\ UNCHANGED pollers
       ELSE UNCHANGED <<loop, pollers, loopDispatches>>
    /\ UNCHANGED <<config, pureVars, app, screenshot_folder, stop_pc, observers,
                   unlinkFailures, files, clipboard, events, started,
                   processing_files, handler, last_clipboard_content,
                   monitoring_clipboard, manual, created, extWrites, transforms,
                   evCount, overlap, cbWriter>>

\* The mutant of CL_Poll: a poll that reads no image records it as last seen.
CL_Poll_recordnone ==
    /\ loop.pc = "loop"
    /\ IF ~monitoring_clipboard
       THEN /\ loop' = [loop EXCEPT !.pc = "exited"]
            /\ pollers' = pollers - 1
            /\ UNCHANGED <<loopDispatches, last_clipboard_content>>
       ELSE LET current_content == get_clipboard_image IN
            IF current_content /= NoImage /\ current_content /= last_clipboard_content
            THEN /\ loop' = [loop EXCEPT !.pc = "stage", !.current = current_content,
                                         !.origin = cbWriter]
                 /\ loopDispatches' = Dispatched(loopDispatches, current_content)
                 /\ UNCHANGED <<pollers, last_clipboard_content>>
            ELSE /\ last_clipboard_content' = current_content
                 /\ UNCHANGED <<loop, pollers, loopDispatches>>
    /\ UNCHANGED <<config, pureVars, app, screenshot_folder, stop_pc, observers,
                   unlinkFailures, files, clipboard, events, started,
                   processing_files, handler,
                   monitoring_clipboard, manual, created, extWrites, transforms,
                   evCount, overlap, cbWriter>>

\* Lines 352-357 and 379: the loop test, the read, the comparison with the
\* last content; nothing new: sleep and test again.
CL_Poll ==
    /\ loop.pc = "loop"
    /\ IF ~monitoring_clipboard
       THEN /\ loop' = [loop EXCEPT !.pc = "exited"]
            /\ pollers' = pollers - 1
            /\ UNCHANGED loopDispatches
       ELSE LET current_content == get_clipboard_image IN
            IF current_content /= NoImage /\ current_content /= last_clipboard_content
            THEN /\ loop' = [loop EXCEPT !.pc = "stage", !.current = current_content,
                                         !.origin = cbWriter]
                 /\ loopDispatches' = Dispatched(loopDispatches, current_content)
                 /\ UNCHANGED pollers
            ELSE UNCHANGED <<loop, pollers, loopDispatches>>
    /\ UNCHANGED <<config, pureVars, app, screenshot_folder, stop_pc, observers,
                   unlinkFailures, files, clipboard, events, started,
                   processing_files, handler, last_clipboard_content,
                   monitoring_clipboard, manual, created, extWrites, transforms,
                   evCount, overlap, cbWriter>>

\* Lines 361-362 and 385-405: _save_clipboard_to_temp. It returns None, and
\* the iteration goes straight to line 377, when NamedTemporaryFile raises
\* (no file) and when write or close raises (the file, created with
\* delete=False, stays behind with partial bytes).
CL_Stage ==
    /\ loop.pc = "stage"
    /\ \E outcome \in {"staged", "nofile", "partial"} :
         LET temp_path == NewTemp("clipboard", files) IN
         IF outcome = "staged"
         THEN /\ files' = WriteFile(files, temp_path, loop.current)
              /\ loop' = [loop EXCEPT !.pc = "apply", !.temp = temp_path]
              /\ UNCHANGED last_clipboard_content
         ELSE /\ CL_Record(loop.current)
              /\ loop' = IdleLoop
              /\ files' = IF outcome = "partial"
                          THEN WriteFile(files, temp_path, Corrupt)
                          ELSE files
    /\ UNCHANGED <<config, pureVars, lifeVars, clipboard, events, started, processing_files,
                   handler, monitoring_clipboard, manual, created, extWrites,
                   transforms, evCount, overlap, cbWriter>>

\* The mutant of CL_Apply: the decode error is not caught and ends the thread.
CL_Apply_raises ==
    /\ loop.pc = "apply"
    /\ IF loop.temp \notin DOMAIN files \/ files[loop.temp] = Corrupt
       THEN loop' = [loop EXCEPT !.pc = "exited"]
       ELSE loop' = [loop EXCEPT !.pc = "transforming", !.img = files[loop.temp]]
    /\ UNCHANGED <<config, pureVars, lifeVars, files, clipboard, events, started,
                   processing_files, handler, last_clipboard_content,
                   monitoring_clipboard, manual, created, extWrites, transforms,
                   evCount, overlap, cbWriter>>

\* The mutant of CL_Apply: undecodable bytes are taken for an image.
CL_Apply_nodecode ==
    /\ loop.pc = "apply"
    /\ IF loop.temp \notin DOMAIN files
       THEN loop' = [loop EXCEPT !.pc = "cleanup"]
       ELSE loop' = [loop EXCEPT !.pc = "transforming", !.img = files[loop.temp]]
    /\ UNCHANGED <<config, pureVars, lifeVars, files, clipboard, events, started,
                   processing_files, handler, last_clipboard_content,
                   monitoring_clipboard, manual, created, extWrites, transforms,
                   evCount, overlap, cbWriter>>

\* Lines 364 and 170-173: apply_rounded_corners(temp_path) opens the staged file.
CL_Apply ==
    /\ loop.pc = "apply"
    /\ IF loop.temp \notin DOMAIN files \/ files[loop.temp] = Corrupt
       THEN loop' = [loop EXCEPT !.pc = "cleanup"]
       ELSE loop' = [loop EXCEPT !.pc = "transforming", !.img = files[loop.temp]]
    /\ UNCHANGED <<config, pureVars, lifeVars, files, clipboard, events, started,
                   processing_files, handler, last_clipboard_content,
                   monitoring_clipboard, manual, created, extWrites, transforms,
                   evCount, overlap, cbWriter>>

\* lines 176-222
CL_Save ==
    /\ loop.pc = "transforming"
    /\ \E ok \in BOOLEAN :
         IF ok
         THEN LET dest == Destination(loop.temp, config, files) IN
              /\ files' = WriteFile(files, dest, Rounded(loop.img))
              /\ loop' = [loop EXCEPT !.pc = "copy", !.out = dest]
         ELSE /\ loop' = [loop EXCEPT !.pc = "cleanup"]
              /\ UNCHANGED files
    /\ UNCHANGED <<config, pureVars, lifeVars, clipboard, events, started, processing_files,
                   handler, last_clipboard_content, monitoring_clipboard, manual,
                   created, extWrites, transforms, evCount, overlap, cbWriter>>

\* line 368
CL_Copy ==
    /\ loop.pc = "copy"
    /\ \E ok \in BOOLEAN : copy_image_to_clipboard(loop.out, "loop", ok)
    /\ loop' = [loop EXCEPT !.pc = "cleanup"]
    /\ UNCHANGED <<config, pureVars, lifeVars, files, events, started, processing_files,
                   handler, last_clipboard_content, monitoring_clipboard, manual,
                   created, extWrites, transforms, evCount, overlap>>

\* Lines 373-379: unlink the staged file and the output (when it is another
\* file), remember the content read at the start of the iteration, sleep.
CL_Cleanup ==
    /\ loop.pc = "cleanup"
    /\ files' = Unlink(files, {loop.temp} \cup
                              (IF loop.out /= NoPath THEN {loop.out} ELSE {}))
    /\ CL_Record(loop.current)
    /\ loop' = IdleLoop
    /\ UNCHANGED <<config, pureVars, lifeVars, clipboard, events, started, processing_files,
                   handler, monitoring_clipboard, manual, created, extWrites,
                   transforms, evCount, overlap, cbWriter>>

\* Lines 373-375 and 381-383: the staged file is unlinked, then the unlink of
\* the output (a file the configuration places, possibly outside the temporary
\* directory) raises; the except branch logs and sleeps, and line 377 is
\* skipped.
CL_CleanupRaises ==
    /\ loop.pc = "cleanup"
    /\ loop.out /= NoPath /\ loop.out /= loop.temp
    /\ unlinkFailures < MaxUnlinkFailures
    /\ unlinkFailures' = unlinkFailures + 1
    /\ files' = Unlink(files, {loop.temp})
    /\ loop' = IdleLoop
    /\ UNCHANGED <<config, pureVars, clipboard, events, started, processing_files,
                   handler, last_clipboard_content, monitoring_clipboard, manual,
                   created, extWrites, transforms, evCount, overlap, cbWriter,
                   app, screenshot_folder, stop_pc, observers, pollers,
                   loopDispatches>>

(* ---- ScreenshotRounder.process_single_file (a --file run) ---- *)

\* main() runs either process_single_file or start_monitoring (lines 667-677).
\* Lines 616-627: False if the file does not exist, else apply_rounded_corners
\* opens it.
MAN_Apply(p) ==
    /\ app = "ready"
    /\ manual.pc = "ready"
    /\ ~started
    /\ IF p \notin DOMAIN files \/ files[p] = Corrupt
       THEN manual' = [manual EXCEPT !.pc = "done", !.path = p, !.result = FALSE]
       ELSE manual' = [manual EXCEPT !.pc = "transforming", !.path = p,
                                     !.img = files[p]]
    /\ UNCHANGED <<config, pureVars, lifeVars, files, clipboard, events, started,
                   processing_files, handler, last_clipboard_content,
                   monitoring_clipboard, loop, created, extWrites, transforms,
                   evCount, overlap, cbWriter>>

\* lines 176-222 and 629-637
MAN_Save ==
    /\ manual.pc = "transforming"
    /\ \E ok \in BOOLEAN :
         IF ok
         THEN LET dest == Destination(manual.path, config, files) IN
              /\ files' = WriteFile(files, dest, Rounded(manual.img))
              /\ manual' = [manual EXCEPT
                              !.out = dest,
                              !.pc = IF config.auto_copy_to_clipboard
                                     THEN "copy" ELSE "done",
                              !.result = TRUE]
         ELSE /\ manual' = [manual EXCEPT !.pc = "done", !.result = FALSE]
              /\ UNCHANGED files
    /\ UNCHANGED <<config, pureVars, lifeVars, clipboard, events, started, processing_files,
                   handler, last_clipboard_content, monitoring_clipboard, loop,
                   created, extWrites, transforms, evCount, overlap, cbWriter>>

\* The mutant of MAN_Copy: the result is the outcome of the clipboard copy.
MAN_Copy_resultofcopy ==
    /\ manual.pc = "copy"
    /\ \E ok \in BOOLEAN :
         /\ copy_image_to_clipboard(manual.out, "manual", ok)
         /\ manual' = [manual EXCEPT !.pc = "done", !.result = ok]
    /\ UNCHANGED <<config, pureVars, lifeVars, files, events, started, processing_files,
                   handler, last_clipboard_content, monitoring_clipboard, loop,
                   created, extWrites, transforms, evCount, overlap>>

\* line 631
MAN_Copy ==
    /\ manual.pc = "copy"
    /\ \E ok \in BOOLEAN : copy_image_to_clipboard(manual.out, "manual", ok)
    /\ manual' = [manual EXCEPT !.pc = "done"]
    /\ UNCHANGED <<config, pureVars, lifeVars, files, events, started, processing_files,
                   handler, last_clipboard_content, monitoring_clipboard, loop,
                   created, extWrites, transforms, evCount, overlap>>

Next ==
    \/ \E p \in Screenshots :
          FsCreate(p, Image(p.base[2], FALSE)) \/ FsCreate(p, Corrupt)
    \/ FsCreate(Notes, Image(NumScreenshots + 2, FALSE))
    \/ FsCreateDir
    \/ \E p \in Screenshots : FsDelete(p)
    \/ ExternalCopy
    \/ StartMonitoring
    \/ \E t \in 1..NumHandlerThreads :
          \/ on_created(t)
          \/ PS_Check(t)
          \/ PS_Add(t)
          \/ PS_Apply(t)
          \/ PS_Save(t)
          \/ PS_Copy(t)
          \/ PS_Finally(t)
    \/ CL_Poll
    \/ CL_Stage
    \/ CL_Apply
    \/ CL_Save
    \/ CL_Copy
    \/ CL_Cleanup
    \/ \E p \in Screenshots : MAN_Apply(p)
    \/ MAN_Save
    \/ MAN_Copy

Spec == Init /\ [][Next]_vars

----------------------------------------------------------------------------
(* SpecLife: construction, start and stop of the triggers *)

\* The mutant of validate_setup: a missing folder is only logged.
validate_setup_nocheck == TRUE

\* Lines 535-538: returns when the watched folder exists, raises
\* FileNotFoundError when it does not.
validate_setup == screenshot_folder

\* main(), lines 660-661 and 681-683: ScreenshotRounder() runs validate_setup;
\* an exception leaves main() through sys.exit(1) before anything is started.
Construct ==
    /\ app = "new"
    /\ app' = IF validate_setup THEN "ready" ELSE "aborted"
    /\ UNCHANGED <<config, pureVars, progVars, screenshot_folder, stop_pc,
                   observers, pollers, unlinkFailures, loopDispatches>>

\* Another application puts PNG-typed data on the clipboard that no decoder
\* accepts.
ExternalCopyCorrupt ==
    /\ extWrites < MaxExtWrites
    /\ extWrites' = extWrites + 1
    /\ clipboard' = Corrupt
    /\ cbWriter' = "external"
    /\ UNCHANGED <<config, pureVars, lifeVars, files, events, started, processing_files,
                   handler, last_clipboard_content, monitoring_clipboard, loop,
                   manual, created, transforms, evCount, overlap>>

\* No callback of the handler and no iteration of the loop is under way.
Quiescent ==
    /\ \A t \in 1..NumHandlerThreads : handler[t].pc = "idle"
    /\ loop.pc \in {"off", "loop"}

\* start_monitoring called again while the triggers run (lines 567-591; there
\* is no test for an observer already started). self.handler and self.observer
\* are replaced by new objects: a second Observer is started, and the new
\* handler's ClipboardManager (flag unset, nothing seen yet) starts a polling
\* thread of its own. The replaced observer and thread keep running; the model
\* keeps their number only, and takes the call at a moment where they are idle.
StartMonitoringAgain ==
    /\ app = "ready" /\ stop_pc = "no"
    /\ started /\ config.monitor_enabled
    /\ Quiescent
    /\ observers < MaxObservers
    /\ observers' = observers + 1
    /\ IF config.monitor_clipboard /\ config.clipboard_available
       THEN /\ monitoring_clipboard' = TRUE
            /\ last_clipboard_content' = NoImage
            /\ loop' = IdleLoop
            /\ pollers' = pollers + 1
            /\ loopDispatches' = << >>
       ELSE UNCHANGED <<monitoring_clipboard, last_clipboard_content, loop, pollers,
                        loopDispatches>>
    /\ UNCHANGED <<config, pureVars, files, clipboard, events, started,
                   processing_files, handler, manual, created, extWrites,
                   transforms, evCount, overlap, cbWriter, app, screenshot_folder,
                   stop_pc, unlinkFailures>>

\* start_clipboard_monitoring called again on the handler's ClipboardManager
\* (the call of line 591 repeated).
StartClipboardAgain ==
    /\ app = "ready" /\ stop_pc = "no"
    /\ started /\ config.monitor_enabled /\ config.monitor_clipboard
    /\ start_clipboard_monitoring
    /\ UNCHANGED <<config, pureVars, files, clipboard, events, started,
                   processing_files, handler, last_clipboard_content, manual,
                   created, extWrites, transforms, evCount, overlap, cbWriter,
                   app, screenshot_folder, stop_pc, observers, unlinkFailures,
                   loopDispatches>>

\* The clipboard thread is inside an iteration (not sleeping between polls).
LoopBusy == loop.pc \notin {"off", "exited", "loop"}

\* stop_monitoring (Ctrl+C in start_monitoring's wait, lines 595-606) calls
\* stop_clipboard_monitoring, line 343: the flag is cleared.
Stop_Clipboard ==
    /\ started /\ config.monitor_enabled
    /\ stop_pc = "no"
    /\ monitoring_clipboard' = FALSE
    /\ stop_pc' = "join_clipboard"
    /\ UNCHANGED <<config, pureVars, files, clipboard, events, started,
                   processing_files, handler, last_clipboard_content, loop, manual,
                   created, extWrites, transforms, evCount, overlap, cbWriter,
                   app, screenshot_folder, observers, pollers, unlinkFailures,
                   loopDispatches>>

\* Lines 344-345: join(timeout=1) returns when the thread has ended (or was
\* never started), or after one second while an iteration is still under way.
Stop_JoinClipboard ==
    /\ stop_pc = "join_clipboard"
    /\ loop.pc \in {"off", "exited"} \/ LoopBusy
    /\ stop_pc' = "stop_observer"
    /\ UNCHANGED <<config, pureVars, progVars, app, screenshot_folder, observers,
                   pollers, unlinkFailures, loopDispatches>>

\* Lines 609-610: observer.stop(); no further event is dispatched.
Stop_Observer ==
    /\ stop_pc = "stop_observer"
    /\ observers' = observers - 1
    /\ stop_pc' = "join_observer"
    /\ UNCHANGED <<config, pureVars, progVars, app, screenshot_folder, pollers,
                   unlinkFailures, loopDispatches>>

\* Line 611: observer.join() waits, without a timeout, for the dispatching
\* thread and so for the callback it is running; stop_monitoring returns.
Stop_JoinObserver ==
    /\ stop_pc = "join_observer"
    /\ \A t \in 1..NumHandlerThreads : handler[t].pc = "idle"
    /\ stop_pc' = "stopped"
    /\ UNCHANGED <<config, pureVars, progVars, app, screenshot_folder, observers,
                   pollers, unlinkFailures, loopDispatches>>

LifeConfigs ==
    {[DefaultConfig EXCEPT !.clipboard_available = c,
                           !.monitor_enabled = m, !.monitor_clipboard = k] :
        c \in BOOLEAN, m \in BOOLEAN, k \in BOOLEAN}

\* Before ScreenshotRounder() is constructed; the watched folder may be missing.
InitLife ==
    /\ config \in LifeConfigs
    /\ kind = "program"
    /\ image_size = <<1, 1>>
    /\ input_path = NoPath
    /\ radius = 0
    /\ output_path = NoPath
    /\ pure_pc = "input"
    /\ ProgIdle
    /\ LifeIdle
    /\ PixIdle
    /\ app = "new"
    /\ screenshot_folder \in BOOLEAN

LoopStep ==
    CL_Poll \/ CL_Stage \/ CL_Apply \/ CL_Save \/ CL_Copy \/ CL_Cleanup \/ CL_CleanupRaises

NextLife ==
    \/ Construct
    \/ FsCreate(Screenshot(1), Image(1, FALSE)) \/ FsCreate(Screenshot(1), Corrupt)
    \/ ExternalCopy
    \/ ExternalCopyCorrupt
    \/ StartMonitoring
    \/ StartMonitoringAgain
    \/ StartClipboardAgain
    \/ Stop_Clipboard
    \/ Stop_JoinClipboard
    \/ Stop_Observer
    \/ Stop_JoinObserver
    \/ \E t \in 1..NumHandlerThreads :
          \/ on_created(t)
          \/ PS_Check(t)
          \/ PS_Add(t)
          \/ PS_Apply(t)
          \/ PS_Save(t)
          \/ PS_Copy(t)
          \/ PS_Finally(t)
    \/ LoopStep

SpecLife == InitLife /\ [][NextLife]_vars

\* The clipboard trigger alone, started and stopped once. The polling thread
\* is scheduled by the operating system and each of its steps returns (the
\* sleeps are bounded): weak fairness of its steps.
NextStop ==
    \/ Construct
    \/ ExternalCopy
    \/ ExternalCopyCorrupt
    \/ StartMonitoring
    \/ Stop_Clipboard
    \/ Stop_JoinClipboard
    \/ Stop_Observer
    \/ Stop_JoinObserver
    \/ LoopStep

SpecStopFair == InitLife /\ [][NextStop]_vars /\ WF_vars(LoopStep)

\* start_clipboard_monitoring, lines 322-339, called on the same
\* ClipboardManager after stop_clipboard_monitoring has returned: the flag is
\* clear, so it is set again and a new polling thread is started. A thread of
\* the earlier start that has not yet ended (the join timed out) goes on
\* running, and finds the flag set at its next test; loop then keeps
\* following that thread, and the new one is counted in pollers.
RestartClipboard ==
    /\ started /\ stop_pc \in {"stop_observer", "join_observer", "stopped"}
    /\ config.clipboard_available /\ ~monitoring_clipboard
    /\ monitoring_clipboard' = TRUE
    /\ pollers' = pollers + 1
    /\ loop' = IF loop.pc \in {"off", "exited"} THEN IdleLoop ELSE loop
    /\ UNCHANGED <<config, pureVars, files, clipboard, events, started,
                   processing_files, handler, last_clipboard_content, manual,
                   created, extWrites, transforms, evCount, overlap, cbWriter,
                   app, screenshot_folder, stop_pc, observers, unlinkFailures,
                   loopDispatches>>

\* The clipboard trigger of one ClipboardManager: started, stopped, and
\* started again.
NextRestart == NextStop \/ RestartClipboard

SpecRestart == InitLife /\ [][NextRestart]_vars

(* ---- SpecWatched: the output folder may be the watched folder ---- *)

\* output_folder and screenshot_folder are independent keys of the
\* configuration (lines 67-68), and so are the patterns (line 76).
WatchedConfigs ==
    {[DefaultConfig EXCEPT !.output_folder = o, !.replace_original = r,
                           !.auto_copy_to_clipboard = a, !.file_patterns = f,
                           !.monitor_clipboard = FALSE] :
        o \in {OutDir, WatchDir}, r \in BOOLEAN, a \in BOOLEAN,
        f \in {{<<"Screenshot", ".png">>}, {<<"CleanShot", ".png">>}}}

InitWatched ==
    /\ config \in WatchedConfigs
    /\ kind = "program"
    /\ image_size = <<1, 1>>
    /\ input_path = NoPath
    /\ radius = 0
    /\ output_path = NoPath
    /\ pure_pc = "input"
    /\ ProgIdle
    /\ LifeIdle
    /\ PixIdle
    /\ app = "ready"
    /\ screenshot_folder = TRUE

\* The filesystem trigger alone: screenshots appear and vanish, the callbacks
\* run.
NextWatched ==
    \/ \E p \in Screenshots : FsCreate(p, Image(p.base[2], FALSE))
    \/ \E p \in Screenshots : FsDelete(p)
    \/ StartMonitoring
    \/ \E t \in 1..NumHandlerThreads :
          \/ on_created(t)
          \/ PS_Check(t)
          \/ PS_Add(t)
          \/ PS_Apply(t)
          \/ PS_Save(t)
          \/ PS_Copy(t)
          \/ PS_Finally(t)

SpecWatched == InitWatched /\ [][NextWatched]_vars


----------------------------------------------------------------------------
(* Claims about the running program (Spec) *)

\* The poll of line 357 would classify the clipboard as new content.
Changed == get_clipboard_image /= NoImage /\ get_clipboard_image /= last_clipboard_content

\* The iteration of the clipboard loop is past the comparison: the content it
\* read is being staged, transformed or written back.
LoopDispatched == loop.pc \in {"stage", "apply", "transforming", "copy", "cleanup"}

\* C1 as stated: when the clipboard still holds what the polling loop wrote
\* back (nobody else wrote since), the next poll classifies it as unchanged.
C1_NextPollUnchanged ==
    (loop.pc = "loop" /\ monitoring_clipboard /\ cbWriter = "loop") => ~Changed

\* C2 as stated: the clipboard trigger dispatches no transform for content the
\* filesystem trigger put on the clipboard by its auto-copy.
C2_NoDispatchOfHandlerCopy ==
    LoopDispatched => loop.origin /= "handler"

\* C3 as stated: no two process_screenshot calls transform the same path at
\* the same time.
C3_MutualExclusion ==
    \A t1, t2 \in 1..NumHandlerThreads :
        (t1 /= t2 /\ handler[t1].pc = "transforming" /\ handler[t2].pc = "transforming")
            => handler[t1].path /= handler[t2].path

\* C4 as stated: two creation events for one path, the second raised while
\* the first was unresolved, lead to at most one transform of that path.
C4_SecondEventSkipped ==
    \A p \in Screenshots :
        (evCount[p] = 2 /\ overlap[p]) => transforms[p] <= 1

\* A process_screenshot call between its add (line 472) and its discard
\* (line 504).
Holding(t) == handler[t].pc \in {"exists", "transforming", "copy", "finally"}

\* C5: every path in processing_files belongs to a process_screenshot call
\* that has not yet reached its discard; so the set is empty whenever every
\* call has returned.
C5_NoLeak ==
    /\ \A p \in processing_files :
          \E t \in 1..NumHandlerThreads : Holding(t) /\ handler[t].path = p
    /\ (\A t \in 1..NumHandlerThreads : handler[t].pc = "idle") => processing_files = {}

\* Every event raised has been handled, a transform ran, a watched file
\* vanished before its callback looked, and all callbacks have returned.
C5_Witness ==
    /\ created = MaxCreates /\ events = << >>
    /\ \A t \in 1..NumHandlerThreads : handler[t].pc = "idle"
    /\ \E p \in Screenshots : transforms[p] >= 1
    /\ \E p \in Screenshots : evCount[p] >= 1 /\ transforms[p] = 0
    /\ processing_files = {}

\* C6 as stated: on all three paths a transform runs only while its identity
\* is in the in-flight set.
C6_TransformUnderGuard ==
    /\ \A t \in 1..NumHandlerThreads :
          handler[t].pc = "transforming" => handler[t].path \in processing_files
    /\ loop.pc = "transforming" => loop.temp \in processing_files
    /\ manual.pc = "transforming" => manual.path \in processing_files


\* Output artifacts are ephemeral: written to a NamedTemporaryFile and meant
\* only for the clipboard.
EphemeralMode ==
    /\ ~config.save_to_desktop /\ config.auto_copy_to_clipboard
    /\ config.clipboard_available

\* The call that wrote output p has not returned yet.
OutputInFlight(p) ==
    \/ \E t \in 1..NumHandlerThreads :
          handler[t].out = p /\ handler[t].pc \in {"copy", "finally"}
    \/ loop.out = p /\ loop.pc \in {"copy", "cleanup"}
    \/ manual.out = p /\ manual.pc = "copy"

\* C11 as stated: with save_to_desktop off and auto_copy_to_clipboard on, once
\* processing has completed (on the filesystem, clipboard or manual path) the
\* temporary output no longer exists on disk, and the clipboard holds the
\* rounded result that was written to it.
C11_EphemeralOutputDeleted ==
    EphemeralMode =>
        /\ \A p \in TempNames("tmp") : p \in DOMAIN files => OutputInFlight(p)
        /\ (manual.pc = "done" /\ manual.result /\ cbWriter = "manual")
              => clipboard = Rounded(manual.img)

\* The output is a persisted artifact: a file of the output folder, with
\* save_to_desktop on and replace_original off.
Persisted(p) ==
    /\ config.save_to_desktop /\ ~config.replace_original
    /\ p.dir = config.output_folder

\* C12 as stated: a persisted output artifact, once written, is never deleted,
\* whichever trigger produced it.
C12_PersistedRetained ==
    [][\A p \in DOMAIN files : Persisted(p) => p \in DOMAIN files']_vars


----------------------------------------------------------------------------
(* Claims about the life cycle and about failures (SpecLife) *)

\* C13 as stated: an iteration that found changed content ends with that
\* content recorded as last seen, whatever its outcome (staging failed,
\* transform failed, write-back failed, exception while cleaning up); and so
\* no content is dispatched a second time.
C13_RecordedRegardless ==
    /\ [][(LoopBusy /\ loop'.pc = "loop") => last_clipboard_content' = loop.current]_vars
    /\ [](\A c \in DOMAIN loopDispatches : loopDispatches[c] <= 1)

\* C14 as stated: when stop_monitoring has returned, neither the clipboard
\* loop nor the observer's callbacks are still running, so that no transform
\* and no clipboard write can start afterwards.
C14_StoppedWhenStopReturns ==
    stop_pc = "stopped" =>
        /\ loop.pc \in {"off", "exited"}
        /\ ~Observing
        /\ \A t \in 1..NumHandlerThreads : handler[t].pc = "idle"

C16_SecondStartNoOp ==
    [][(StartMonitoringAgain \/ (monitoring_clipboard /\ StartClipboardAgain))
          => UNCHANGED <<observers, pollers, handler, processing_files, loop,
                         monitoring_clipboard, last_clipboard_content>>]_vars

\* C17: without the clipboard capability the clipboard trigger never starts
\* and never dispatches, a read returns nothing, no write of the program
\* touches the clipboard (it holds what other applications put there), and
\* the filesystem trigger's outputs are written and persisted as usual.
C17_NoCapability ==
    ~config.clipboard_available =>
        /\ loop.pc = "off" /\ ~monitoring_clipboard /\ pollers = 0
        /\ loopDispatches = << >>
        /\ get_clipboard_image = NoImage
        /\ IF extWrites = 0
           THEN clipboard = NoImage /\ cbWriter = "none"
           ELSE clipboard \in {ExternalImage, Corrupt} /\ cbWriter = "external"
        /\ \A t \in 1..NumHandlerThreads :
              handler[t].out /= NoPath =>
                  /\ Persisted(handler[t].out)
                  /\ handler[t].out \in DOMAIN files
                  /\ files[handler[t].out] = Rounded(handler[t].img)

\* No capability, monitor_clipboard on, another application has written the
\* clipboard, and a callback has saved its output and passed the copy.
C17_Witness ==
    /\ ~config.clipboard_available /\ config.monitor_clipboard
    /\ started /\ extWrites = 1
    /\ \E t \in 1..NumHandlerThreads :
          /\ handler[t].pc = "finally"
          /\ handler[t].out \in DOMAIN files

\* C18: a decode or write failure stays with its ticket. The failing step of
\* a callback changes that callback's position only; the failing step of the
\* loop changes the loop's position only; and the loop returns for no other
\* reason than its flag being cleared.
C18_FailureIsolation ==
    /\ [](loop.pc = "exited" => ~monitoring_clipboard)
    /\ [][\A t \in 1..NumHandlerThreads :
            (/\ handler[t].pc \in {"exists", "transforming"}
             /\ handler'[t].pc = "finally" /\ handler'[t].out = NoPath)
                => /\ UNCHANGED <<files, clipboard, events, processing_files, loop,
                                  last_clipboard_content, monitoring_clipboard>>
                   /\ \A u \in 1..NumHandlerThreads \ {t} : handler'[u] = handler[u]]_vars
    /\ [][(/\ loop.pc \in {"apply", "transforming"}
           /\ loop'.pc \notin {"apply", "transforming", "copy"})
              => /\ loop'.pc = "cleanup" /\ loop'.out = NoPath
                 /\ UNCHANGED <<files, clipboard, events, processing_files, handler,
                                last_clipboard_content, monitoring_clipboard>>]_vars

\* The loop has had a decode failure (undecodable clipboard data, now recorded
\* as last seen) and is transforming a later image, while a callback has just
\* failed on an undecodable file.
C18_Witness ==
    /\ Count(loopDispatches, Corrupt) = 1
    /\ last_clipboard_content = Corrupt
    /\ loop.pc = "transforming"
    /\ \E t \in 1..NumHandlerThreads :
          /\ handler[t].pc = "finally"
          /\ handler[t].out = NoPath
          /\ files[handler[t].path] = Corrupt

C20_MissingFolderAborts ==
    ~screenshot_folder =>
        /\ app \in {"new", "aborted"}
        /\ ~started /\ stop_pc = "no"
        /\ observers = 0 /\ pollers = 0
        /\ loop.pc = "off" /\ ~monitoring_clipboard
        /\ events = << >>
        /\ \A t \in 1..NumHandlerThreads : handler[t].pc = "idle"
        /\ manual.pc = "ready"

\* Construction has aborted on the missing folder while the environment goes
\* on: a screenshot has been written, the clipboard has been set.
C20_Witness ==
    /\ ~screenshot_folder /\ app = "aborted"
    /\ files /= << >>
    /\ clipboard /= NoImage

----------------------------------------------------------------------------
(* Claims about the manual run, the triggers and the guard (Spec, SpecLife) *)

\* C21: process_single_file goes from the call straight to the transform (no
\* settle delay); it returns True exactly when the file existed and
\* apply_rounded_corners returned an output, whatever the copy to the
\* clipboard did; and it copies only with an output and with
\* auto_copy_to_clipboard set.
C21_ManualResult ==
    /\ [](manual.pc \in {"ready", "transforming", "copy", "done"})
    /\ [](manual.pc = "done" => (manual.result <=> manual.out /= NoPath))
    /\ [](manual.pc = "copy" =>
              /\ config.auto_copy_to_clipboard
              /\ manual.out /= NoPath /\ manual.result)
    /\ [](cbWriter = "manual" => config.auto_copy_to_clipboard /\ manual.out /= NoPath)
    /\ [][(manual.pc = "ready" /\ manual'.pc /= "ready")
              => IF manual'.path \in DOMAIN files /\ files[manual'.path] /= Corrupt
                 THEN manual'.pc = "transforming"
                 ELSE manual'.pc = "done" /\ ~manual'.result]_vars
    /\ [][(manual.pc = "copy" /\ manual'.pc = "done") => manual'.result]_vars
    /\ [][(manual.pc = "transforming" /\ manual'.pc /= "transforming")
              => IF manual'.out /= NoPath
                 THEN /\ manual'.out \in DOMAIN files'
                      /\ manual'.result
                      /\ manual'.pc = IF config.auto_copy_to_clipboard
                                      THEN "copy" ELSE "done"
                 ELSE manual'.pc = "done" /\ ~manual'.result]_vars

\* A manual run has returned True although its copy to the clipboard failed:
\* the pasteboard was cleared and holds nothing.
C21_Witness ==
    /\ manual.pc = "done" /\ manual.result
    /\ config.auto_copy_to_clipboard /\ config.clipboard_available
    /\ manual.out \in DOMAIN files
    /\ extWrites = 1 /\ clipboard = NoImage

\* C24: the two enable flags are independent. Once start_monitoring has
\* returned, a polling thread runs exactly when monitor_clipboard is set and
\* the clipboard capability is present, whatever monitor_enabled is, and an
\* observer runs exactly when monitor_enabled is set.
C24_FlagsIndependent ==
    (started /\ stop_pc = "no") =>
        /\ (pollers > 0) <=> (config.monitor_clipboard /\ config.clipboard_available)
        /\ (observers > 0) <=> config.monitor_enabled

\* C25: the filesystem trigger. A callback leaves idle only for the head
\* event, only when that event is no directory and its name matches a
\* pattern, and only into the settle delay; the guard (the add of the path)
\* is reached only from the delay; a callback that is not idle holds a
\* matching file path, so a directory or a non-matching name reaches neither
\* the guard nor the transform; and a callback returns to idle.
C25_FilesystemTrigger ==
    /\ [](\A t \in 1..NumHandlerThreads :
             handler[t].pc /= "idle" =>
                 /\ is_screenshot_file(handler[t].path)
                 /\ handler[t].path \notin {Folder, Notes})
    /\ [](\A p \in processing_files : is_screenshot_file(p) /\ p /= Folder)
    /\ [][\A t \in 1..NumHandlerThreads :
             (handler[t].pc = "idle" /\ handler'[t].pc /= "idle") =>
                 /\ events /= << >>
                 /\ ~Head(events).is_directory
                 /\ is_screenshot_file(Head(events).src_path)
                 /\ handler'[t].pc = "delay"
                 /\ handler'[t].path = Head(events).src_path]_vars
    /\ [][\A t \in 1..NumHandlerThreads :
             (handler[t].pc = "delay" /\ handler'[t].pc /= "delay") =>
                 handler'[t].pc \in {"add", "idle"}]_vars
    /\ [][\A t \in 1..NumHandlerThreads :
             (handler'[t].pc = "add" /\ handler[t].pc /= "add") =>
                 handler[t].pc = "delay"]_vars
    /\ [][\A t \in 1..NumHandlerThreads :
             (handler'[t].pc = "idle" /\ handler[t].pc /= "idle") =>
                 handler[t].pc \in {"delay", "finally"}]_vars

\* A screenshot event has been dispatched and sits in its settle delay while
\* the next queued event, a directory or a name matching no pattern, waits
\* for an idle callback.
C25_Witness ==
    /\ events /= << >>
    /\ Head(events).is_directory \/ ~is_screenshot_file(Head(events).src_path)
    /\ \E t, u \in 1..NumHandlerThreads :
          /\ handler[t].pc = "delay" /\ handler[t].path \in Screenshots
          /\ handler[u].pc = "idle"
    /\ processing_files = {}

\* C27: a call of process_screenshot for a path that is in processing_files
\* returns without changing the set: the path stays in it.
C27_RejectKeepsGuard ==
    [][\A t \in 1..NumHandlerThreads :
          (/\ handler[t].pc = "delay"
           /\ handler[t].path \in processing_files
           /\ handler'[t] /= handler[t]) =>
              /\ handler'[t].pc = "idle"
              /\ processing_files' = processing_files
              /\ handler[t].path \in processing_files']_vars

\* The second event of a file has been rejected while the callback of the
\* first is still transforming: the file was rewritten (with bytes that do not
\* decode) after the first callback read it, both events are consumed, one
\* transform has run, and the path is still in the set.
C27_Witness ==
    \E p \in Screenshots, t, u \in 1..NumHandlerThreads :
        /\ t /= u
        /\ created = MaxCreates /\ events = << >>
        /\ evCount[p] = 2 /\ transforms[p] = 1
        /\ p \in DOMAIN files /\ files[p] = Corrupt
        /\ handler[u].pc = "transforming" /\ handler[u].path = p
        /\ handler[t].pc = "idle"
        /\ p \in processing_files

\* C28: a poll dispatches only an image that is on the clipboard and differs
\* from the last one seen; the last one seen changes only at the end of a
\* dispatched iteration, so a poll that reads no image leaves it alone, and a
\* staged file appears only in a dispatched iteration. The payload last seen
\* is therefore not dispatched again when it comes back after the clipboard
\* was empty.
C28_EmptyPoll ==
    /\ [][(loop.pc = "loop" /\ loop'.pc = "stage") =>
              /\ get_clipboard_image /= NoImage
              /\ get_clipboard_image /= last_clipboard_content
              /\ loop'.current = get_clipboard_image]_vars
    /\ [][last_clipboard_content' /= last_clipboard_content =>
              /\ loop.pc \in {"stage", "apply", "transforming", "copy", "cleanup"}
              /\ last_clipboard_content' = loop.current]_vars
    /\ [][(\E q \in DOMAIN files' \ DOMAIN files : q \in TempNames("clipboard")) =>
              loop.pc = "stage"]_vars
    /\ [][loopDispatches' /= loopDispatches =>
              /\ loop.pc = "loop" /\ loop'.pc = "stage"
              /\ loop'.current /= last_clipboard_content]_vars

\* The write-back of an iteration failed and cleared the pasteboard: the loop
\* polls an empty clipboard with a payload recorded as last seen.
C28_Witness ==
    /\ monitoring_clipboard /\ loop.pc = "loop"
    /\ config.clipboard_available
    /\ clipboard = NoImage /\ cbWriter = "none"
    /\ last_clipboard_content /= NoImage
    /\ Count(loopDispatches, last_clipboard_content) = 1


\* C26: two distinct sources never resolve to the same destination: the
\* destination get_output_path gives a source is given to no other source.
C26_DistinctDestinations ==
    (PathDone /\ get_output_path(input_path, config) /= NoPath) =>
        \A q \in PureInputPaths \ {input_path} :
            get_output_path(q, config) /= output_path

----------------------------------------------------------------------------
(* Claims about the polling thread alone (SpecStopFair, SpecRestart) *)

\* The dispatches the polling loop has made, over every payload.
TotalDispatches ==
    Count(loopDispatches, ExternalImage) + Count(loopDispatches, Rounded(ExternalImage))
        + Count(loopDispatches, Corrupt)

\* C29: with one external write to the clipboard and no other writer than the
\* loop's own write-back, the polling loop dispatches (and so transforms) at
\* most twice: the external payload, then its own write-back.
C29_AtMostTwoTransforms ==
    extWrites <= 1 => TotalDispatches <= 2

\* C30: for one ClipboardManager, whatever the sequence of
\* start_clipboard_monitoring and stop_clipboard_monitoring calls, at most one
\* polling thread runs at any time.
C30_OnePollingThread == pollers <= 1

\* C31: the filesystem trigger never dispatches a file the program wrote as a
\* transform output: no callback works on a path that carries a _rounded
\* suffix, and no file with two _rounded suffixes appears.
C31_NoOutputDispatched ==
    /\ \A t \in 1..NumHandlerThreads :
          handler[t].pc /= "idle" => handler[t].path.rounded = 0
    /\ \A p \in DOMAIN files : p.rounded <= 1

============================================================================
